---- MODULE Spec2Model ----
(***************************************************************************)
(* Model of LLM_CLI_HELPER: src/cli_helper.py (response parser, transport  *)
(* wrapper, one-shot and interactive command line) and src/web_app.py      *)
(* (chat page with a session history).                                     *)
(*                                                                         *)
(* A Python str is a sequence of characters; a character is a one-element  *)
(* TLA+ string.  The three characters of the Chinese label are written     *)
(* "shuo", "ming" and "FULLCOLON" (the full-width colon), the two          *)
(* characters of the Chinese exit word "tui" and "chu", and the backtick   *)
(* "BACKTICK".                                                             *)
(***************************************************************************)
EXTENDS Integers, Sequences, FiniteSets, TLC

VARIABLES
    content,      \* parser: the argument of parse_response
    parsed,       \* parser: the dict parse_response returned, or NoValue
    pc,           \* CLI: position of the process
    mode,         \* CLI: subcommand that was invoked
    user_input,   \* CLI: last line console.input returned (interactive)
    query,        \* CLI: argument of the running/last handle_query
    pending,      \* CLI: HTTP requests sent and not yet returned or aborted
    accepted,     \* CLI: queries handed to handle_query so far
    attempts,     \* CLI: requests.post calls so far
    rendered,     \* CLI: handle_query calls that reached their final panel
    outcome,      \* CLI: what the last transport call produced
    reply,        \* CLI: message content of the last 200 response with choices
    result,       \* CLI: dict the last get_llm_response returned, or NoValue
    console,      \* CLI: what was printed since the last prompt
    exitCause,    \* CLI: why the process left its loop / command
    env_api_key,  \* web: os.getenv("API_KEY"), "" when unset
    api_key,      \* web: credential in effect for the session
    messages,     \* web: st.session_state["messages"]
    wpc,          \* web: position of the script run
    wprompt,      \* web: prompt of the running script run
    wcalls,       \* web: requests.post calls so far
    wrejected,    \* web: submissions stopped for lack of a credential
    wcrashed      \* web: a script run ended with an uncaught exception

parserVars == <<content, parsed>>
cliVars == <<pc, mode, user_input, query, pending, accepted, attempts,
             rendered, outcome, reply, result, console, exitCause>>
webVars == <<env_api_key, api_key, messages, wpc, wprompt, wcalls, wrejected, wcrashed>>
vars == <<parserVars, cliVars, webVars>>

\* "no value yet" for parsed and result
NoValue == [none |-> TRUE]

----------------------------------------------------------------------------
(* Bounds of the model *)

\* number of pieces a reply handed to parse_response is built from
MaxPieces == 5
\* number of pieces a reply returned by the transport of the CLI is built from
MaxCliPieces == 3
\* number of queries the interactive loop accepts
MaxQueries == 2
\* number of web submissions that reach the transport
MaxCycles == 2

----------------------------------------------------------------------------
(* Python str operations used by the program *)

Whitespace == {" ", "\n"}

\* s[i : i + len(sub)] == sub  (1-based i)
MatchAt(s, sub, i) ==
    /\ i + Len(sub) - 1 <= Len(s)
    /\ SubSeq(s, i, i + Len(sub) - 1) = sub

\* s.find(sub, i - 1) + 1: the leftmost occurrence at or after i, 0 for none
RECURSIVE FindFrom(_, _, _)
FindFrom(s, sub, i) ==
    IF i + Len(sub) - 1 > Len(s) THEN 0
    ELSE IF MatchAt(s, sub, i) THEN i
    ELSE FindFrom(s, sub, i + 1)

\* s.find(sub) + 1
Find(s, sub) == FindFrom(s, sub, 1)

\* sub in s
Contains(s, sub) == Find(s, sub) # 0

\* s.split(sep, 1)
Split1(s, sep) ==
    LET i == Find(s, sep)
    IN  IF i # 0
        THEN <<SubSeq(s, 1, i - 1), SubSeq(s, i + Len(sep), Len(s))>>
        ELSE <<s>>

RECURSIVE LStrip(_)
LStrip(s) ==
    IF s # <<>> /\ Head(s) \in Whitespace THEN LStrip(Tail(s)) ELSE s

RECURSIVE RStrip(_)
RStrip(s) ==
    IF s # <<>> /\ s[Len(s)] \in Whitespace
    THEN RStrip(SubSeq(s, 1, Len(s) - 1))
    ELSE s

\* s.strip()
Strip(s) == RStrip(LStrip(s))

\* s.replace(old, new): non-overlapping occurrences, scanned left to right
RECURSIVE Replace(_, _, _)
Replace(s, old, new) ==
    IF Len(s) < Len(old) THEN s
    ELSE IF SubSeq(s, 1, Len(old)) = old
         THEN new \o Replace(SubSeq(s, Len(old) + 1, Len(s)), old, new)
         ELSE <<Head(s)>> \o Replace(Tail(s), old, new)

\* sep.join(parts)
RECURSIVE Join(_, _)
Join(sep, parts) ==
    IF parts = <<>> THEN <<>>
    ELSE IF Len(parts) = 1 THEN parts[1]
    ELSE parts[1] \o sep \o Join(sep, Tail(parts))

----------------------------------------------------------------------------
(* cli_helper.py: parse_response *)

Fence == <<"BACKTICK", "BACKTICK", "BACKTICK">>
BashFence == Fence \o <<"b", "a", "s", "h">>
LabelFull == <<"shuo", "ming", "FULLCOLON">>
LabelHalf == <<"shuo", "ming", ":">>

\* The split every strategy applies once its marker is in content: split at
\* the marker, then split the rest at the next fence; both parts stripped.
\* Without a closing fence both stay "".
SplitLogic(text, marker) ==
    LET parts == Split1(text, marker)
    IN  IF Len(parts) > 1 /\ Contains(parts[2], Fence)
        THEN LET halves == Split1(parts[2], Fence)
             IN  [code_block |-> Strip(halves[1]),
                  explanation |-> Strip(halves[2])]
        ELSE [code_block |-> <<>>, explanation |-> <<>>]

\* An if/elif that applies the generic strategy whenever the tagged one
\* produced nothing.
ExtractBlockFallThrough(text) ==
    LET tagged == IF Contains(text, BashFence)
                  THEN SplitLogic(text, BashFence)
                  ELSE [code_block |-> <<>>, explanation |-> <<>>]
    IN  IF tagged.code_block = <<>> /\ tagged.explanation = <<>>
           /\ Contains(text, Fence)
        THEN SplitLogic(text, Fence)
        ELSE tagged

\* The if/elif of parse_response: code_block and explanation before the
\* fallback.
ExtractBlock(text) ==
    IF Contains(text, BashFence) THEN SplitLogic(text, BashFence)
    ELSE IF Contains(text, Fence) THEN SplitLogic(text, Fence)
    ELSE [code_block |-> <<>>, explanation |-> <<>>]

\* lines 119-121: the whole reply when no block was found
Fallback(b, text) ==
    IF b.code_block = <<>> /\ b.explanation = <<>> THEN text ELSE b.explanation

\* explanation as it stands before the label is cleaned
Candidate(text) == Fallback(ExtractBlock(text), text)

\* explanation.replace(LabelFull, "").replace(LabelHalf, "").strip()
CleanLabel(explanation) ==
    Strip(Replace(Replace(explanation, LabelFull, <<>>), LabelHalf, <<>>))

\* A parse_response that forgets the whole-reply fallback.
ParseResponseNoFallback(text) ==
    LET b == ExtractBlock(text)
    IN  [code |-> b.code_block,
         explanation |-> CleanLabel(b.explanation),
         raw |-> text]

ParseResponse(text) ==
    LET b == ExtractBlock(text)
    IN  [code |-> b.code_block,
         explanation |-> CleanLabel(Fallback(b, text)),
         raw |-> text]

----------------------------------------------------------------------------
(* Replies of the model: concatenations of a few pieces *)

Pieces == {Fence, <<"BACKTICK">>, <<"b", "a", "s", "h">>, LabelFull, LabelHalf,
           <<" ">>, <<"x">>}

RECURSIVE Concat(_)
Concat(ps) == IF ps = <<>> THEN <<>> ELSE Head(ps) \o Concat(Tail(ps))

Replies(P, n) == {Concat(ps) : ps \in UNION {[1..k -> P] : k \in 0..n}}

\* arguments of parse_response
ParserInputs == Replies(Pieces, MaxPieces)

\* message contents the transport of the command line returns; one piece is
\* a whole tagged block
CliPieces == {BashFence \o <<"\n", "l", "s", "\n">> \o Fence, Fence,
              LabelFull, <<" ">>, <<"x">>}
CliReplies == Replies(CliPieces, MaxCliPieces)

----------------------------------------------------------------------------
(* cli_helper.py: console output *)

\* console.print(Panel(body, title=..., border_style=...)); a bare Text or
\* markup line is an item with border "none".
Panel(title, border, body) == [title |-> title, border |-> border, body |-> body]
Line(body) == [title |-> "", border |-> "none", body |-> body]

Thinking == Line(<<"thinking...">>)
UsageHint == Line(<<"usage: cli_helper.py ask <question>">>)
Banner == Panel("CLI Helper", "green", <<"interactive mode; exit, quit or q to leave">>)
Goodbye == Line(<<"bye">>)
Interrupted == Line(<<"interrupted by user">>)
BlankLine == Line(<<>>)

\* The three panels handle_query prints.
CommandPanel(code) == Panel("suggested command", "green", code)
ExplanationPanel(text) == Panel("explanation", "yellow", text)
FallbackPanel(text) == Panel("reply", "red", text)

----------------------------------------------------------------------------
(* cli_helper.py: get_llm_response *)

\* What requests.post and the decoding of its response can produce.
\*   connection_error  requests.post raises a RequestException (also timeout)
\*   http_error        status_code != 200
\*   invalid_json_req  response.json() raises the JSONDecodeError of requests,
\*                     a RequestException
\*   invalid_json      response.json() raises a plain ValueError
\*   no_choices        200, no "choices" key or an empty list
\*   bad_content       200, choices[0] without message/content, or a content
\*                     that is no str: KeyError, TypeError, AttributeError
\*   ok                200 and a str content
\*   keyboard_interrupt  Ctrl-C while the call blocks
ErrorOutcomes == {"connection_error", "http_error", "invalid_json_req",
                  "invalid_json", "no_choices", "bad_content"}
Outcomes == ErrorOutcomes \cup {"ok", "keyboard_interrupt"}

RequestExceptions == {"RequestException"}
\* classes deriving from Exception; KeyboardInterrupt derives from
\* BaseException only
ExceptionClasses == {"RequestException", "ValueError", "KeyError"}

ExplApiError == <<"API request failed, check the key or the network.">>
ExplNoContent == <<"the model returned no valid content.">>
ExplNetwork == <<"network connection failed.">>
ExplInternal == <<"internal error: ", "str(e)">>

Returned(value, printed) ==
    [raised |-> FALSE, value |-> value, printed |-> printed]
Raised(exc, printed) ==
    [raised |-> TRUE, exc |-> exc, printed |-> printed]

\* The try block: lines 67-85.
TryBlock(out, body) ==
    CASE out = "connection_error" -> Raised("RequestException", <<Thinking>>)
      [] out = "keyboard_interrupt" -> Raised("KeyboardInterrupt", <<Thinking>>)
      [] out = "http_error" ->
            Returned([code |-> <<>>, explanation |-> ExplApiError],
                     <<Thinking,
                       Panel("API error", "red", <<"API request failed: status - text">>)>>)
      [] out = "invalid_json_req" -> Raised("RequestException", <<Thinking>>)
      [] out = "invalid_json" -> Raised("ValueError", <<Thinking>>)
      [] out = "no_choices" ->
            Returned([code |-> <<>>, explanation |-> ExplNoContent], <<Thinking>>)
      [] out = "bad_content" -> Raised("KeyError", <<Thinking>>)
      [] out = "ok" -> Returned(ParseResponse(Strip(body)), <<Thinking>>)

\* A get_llm_response whose only handler is the one for RequestException.
GetLlmResponseNoCatchAll(out, body) ==
    LET t == TryBlock(out, body)
    IN  IF ~t.raised THEN t
        ELSE IF t.exc \in RequestExceptions
        THEN Returned([code |-> <<>>, explanation |-> ExplNetwork],
                      t.printed \o <<Panel("connection error", "red", <<"network error: e">>)>>)
        ELSE t

\* try / except RequestException / except Exception
GetLlmResponse(out, body) ==
    LET t == TryBlock(out, body)
    IN  IF ~t.raised THEN t
        ELSE IF t.exc \in RequestExceptions
        THEN Returned([code |-> <<>>, explanation |-> ExplNetwork],
                      t.printed \o <<Panel("connection error", "red", <<"network error: e">>)>>)
        ELSE IF t.exc \in ExceptionClasses
        THEN Returned([code |-> <<>>, explanation |-> ExplInternal],
                      t.printed \o <<Panel("program error", "red", <<"unknown error: e">>)>>)
        ELSE t

----------------------------------------------------------------------------
(* cli_helper.py: handle_query, lines 190-212 *)

\* result.get("raw", "")
GetRaw(r) == IF "raw" \in DOMAIN r THEN r.raw ELSE <<>>

\* A rendering that always uses the command panel.
RenderAlwaysCommand(r) ==
    <<CommandPanel(r.code)>>
        \o (IF r.explanation # <<>> THEN <<ExplanationPanel(r.explanation)>> ELSE <<>>)

Render(r) ==
    IF r.code # <<>>
    THEN <<CommandPanel(r.code)>>
            \o (IF r.explanation # <<>>
                THEN <<ExplanationPanel(r.explanation)>>
                ELSE <<>>)
    ELSE <<FallbackPanel(IF r.explanation # <<>> THEN r.explanation ELSE GetRaw(r))>>

----------------------------------------------------------------------------
(* cli_helper.py: the commands ask and interactive *)

\* str.lower() on the characters the input lines use
LowerChar(c) ==
    CASE c = "E" -> "e" [] c = "X" -> "x" [] c = "I" -> "i" [] c = "T" -> "t"
      [] c = "Q" -> "q" [] c = "U" -> "u"
      [] OTHER -> c
Lower(s) == [i \in 1..Len(s) |-> LowerChar(s[i])]

ExitWords == {<<"e", "x", "i", "t">>, <<"q", "u", "i", "t">>, <<"q">>,
              <<"tui", "chu">>}

\* lines console.input may return
InputLines == {<<>>, <<" ">>, <<"e", "x", "i", "t">>, <<"E", "x", "i", "t">>,
               <<"Q", "U", "I", "T">>, <<"q">>, <<"tui", "chu">>,
               <<" ", "q">>, <<"l", "s">>, <<"x", " ">>}

\* argument tuples click may pass to ask (nargs=-1)
Tasks == {<<>>, << <<>> >>, << <<" ">> >>, << <<"l", "s">> >>,
          << <<"l", "s">>, <<"x">> >>, << <<>>, <<>> >>}

\* handle_query(q) up to the point where requests.post blocks: the request
\* is sent twice.
DispatchTwice(q) ==
    /\ query' = q
    /\ accepted' = accepted + 1
    /\ attempts' = attempts + 2
    /\ pending' = pending + 1
    /\ pc' = "in_flight"

\* handle_query(q) up to the point where requests.post blocks
Dispatch(q) ==
    /\ query' = q
    /\ accepted' = accepted + 1
    /\ attempts' = attempts + 1
    /\ pending' = pending + 1
    /\ pc' = "in_flight"

\* ask(task)
Ask(task) ==
    /\ pc = "start"
    /\ mode' = "ask"
    /\ IF task = <<>>
       THEN /\ console' = <<UsageHint>>
            /\ pc' = "done"
            /\ exitCause' = "usage"
            /\ UNCHANGED <<query, accepted, attempts, pending>>
       ELSE /\ Dispatch(Join(<<" ">>, task))
            /\ console' = <<>>
            /\ exitCause' = "none"
    /\ UNCHANGED <<user_input, rendered, outcome, reply, result>>
    /\ UNCHANGED <<parserVars, webVars>>

\* interactive(), up to the first prompt
Interactive ==
    /\ pc = "start"
    /\ mode' = "interactive"
    /\ pc' = "prompt"
    /\ console' = <<Banner>>
    /\ UNCHANGED <<user_input, query, pending, accepted, attempts, rendered,
                   outcome, reply, result, exitCause>>
    /\ UNCHANGED <<parserVars, webVars>>

\* The exit test without lower().
IsExitCaseSensitive(line) == line \in ExitWords

IsExit(line) == Lower(line) \in ExitWords

\* One pass of the loop body up to the call that blocks: console.input
\* returns line.
ReadPrompt(line) ==
    /\ pc = "prompt"
    /\ user_input' = line
    /\ outcome' = "none"
    /\ reply' = NoValue
    /\ result' = NoValue
    /\ IF IsExit(line)
       THEN /\ console' = <<Goodbye>>
            /\ pc' = "done"
            /\ exitCause' = "keyword"
            /\ UNCHANGED <<query, accepted, attempts, pending>>
       ELSE IF Strip(line) = <<>>
       THEN /\ console' = <<>>
            /\ UNCHANGED <<pc, exitCause, query, accepted, attempts, pending>>
       ELSE /\ accepted < MaxQueries
            /\ Dispatch(line)
            /\ console' = <<>>
            /\ UNCHANGED exitCause
    /\ UNCHANGED <<mode, rendered>>
    /\ UNCHANGED <<parserVars, webVars>>

\* console.input raises KeyboardInterrupt or EOFError
PromptInterrupt ==
    /\ pc = "prompt"
    /\ console' = <<Interrupted>>
    /\ pc' = "done"
    /\ exitCause' = "interrupt"
    /\ outcome' = "none"
    /\ reply' = NoValue
    /\ result' = NoValue
    /\ UNCHANGED <<mode, user_input, query, pending, accepted, attempts, rendered>>
    /\ UNCHANGED <<parserVars, webVars>>

\* what a call of requests.post can end with: an outcome, and for "ok" the
\* message content
Responses ==
    {[out |-> o, body |-> <<>>] : o \in Outcomes \ {"ok"}}
        \cup {[out |-> "ok", body |-> b] : b \in CliReplies}

\* requests.post returns or raises, and handle_query runs to its end; an
\* exception get_llm_response lets through reaches the caller of
\* handle_query.
TransportReturn(out, body) ==
    /\ pc = "in_flight"
    /\ pending' = pending - 1
    /\ outcome' = out
    /\ reply' = IF out = "ok" THEN body ELSE NoValue
    /\ LET r == GetLlmResponse(out, body)
       IN  IF r.raised
           THEN /\ result' = NoValue
                /\ pc' = "done"
                /\ UNCHANGED rendered
                /\ IF mode = "interactive" /\ r.exc \in {"KeyboardInterrupt", "EOFError"}
                   THEN /\ console' = console \o r.printed \o <<Interrupted>>
                        /\ exitCause' = "interrupt"
                   ELSE /\ console' = console \o r.printed
                        /\ exitCause' = IF r.exc = "KeyboardInterrupt"
                                        THEN "aborted" ELSE "crashed"
           ELSE /\ result' = r.value
                /\ rendered' = rendered + 1
                /\ IF mode = "interactive"
                   THEN /\ console' = console \o r.printed \o Render(r.value) \o <<BlankLine>>
                        /\ pc' = "prompt"
                        /\ UNCHANGED exitCause
                   ELSE /\ console' = console \o r.printed \o Render(r.value)
                        /\ pc' = "done"
                        /\ exitCause' = "completed"
    /\ UNCHANGED <<mode, user_input, query, accepted, attempts>>
    /\ UNCHANGED <<parserVars, webVars>>

----------------------------------------------------------------------------
(* web_app.py *)

Message(role, text) == [role |-> role, content |-> text]
Greeting == Message("assistant", <<"hello, tell me what you want to do">>)

\* what st.chat_input returns on a submission, and what the sidebar field holds
WebPrompts == {<<"p">>, <<"l", "s">>}
WebKeys == {<<>>, <<"k">>}
\* message contents of a 200 response
WebReplies == {<<"x">>, <<" ">> \o BashFence \o <<"x">> \o Fence \o <<"\n">>}
\* outcomes of requests.post and of reading the response: a 200 with the
\* content, another status, or any exception (connection, timeout, JSON
\* decoding, a missing choices/message/content key)
WebOutcomes == {"ok", "http_error", "exception"}

\* A get_llm_response without its try/except.
WebGetLlmResponseNoCatch(out, body) ==
    CASE out = "ok" -> [raised |-> FALSE, value |-> body]
      [] out = "http_error" ->
            [raised |-> FALSE, value |-> <<"API request failed: status - text">>]
      [] out = "exception" -> [raised |-> TRUE, value |-> <<>>]

\* get_llm_response(prompt, key): the text it returns
WebGetLlmResponse(out, body) ==
    CASE out = "ok" -> [raised |-> FALSE, value |-> body]
      [] out = "http_error" ->
            [raised |-> FALSE, value |-> <<"API request failed: status - text">>]
      [] out = "exception" ->
            [raised |-> FALSE, value |-> <<"error: ", "str(e)">>]

\* A script run without a submission, after the sidebar field was edited
\* (the field exists only when the environment gives no key).
WebSetSidebarKey(k) ==
    /\ wpc = "idle"
    /\ env_api_key = <<>>
    /\ api_key' = k
    /\ UNCHANGED <<env_api_key, messages, wpc, wprompt, wcalls, wrejected, wcrashed>>
    /\ UNCHANGED <<parserVars, cliVars>>

\* A script run with a submitted prompt, up to the call that blocks.
WebSubmit(prompt) ==
    /\ wpc = "idle"
    /\ IF api_key = <<>>
       THEN /\ wrejected < MaxCycles
            /\ wrejected' = wrejected + 1
            /\ UNCHANGED <<messages, wpc, wprompt, wcalls>>
       ELSE /\ wcalls < MaxCycles
            /\ messages' = Append(messages, Message("user", prompt))
            /\ wprompt' = prompt
            /\ wcalls' = wcalls + 1
            /\ wpc' = "calling"
            /\ UNCHANGED wrejected
    /\ UNCHANGED <<env_api_key, api_key, wcrashed>>
    /\ UNCHANGED <<parserVars, cliVars>>

\* requests.post returns or raises and the script run ends.
WebResponse(out, body) ==
    /\ wpc = "calling"
    /\ wpc' = "idle"
    /\ LET r == WebGetLlmResponse(out, body)
       IN  IF r.raised
           THEN /\ wcrashed' = TRUE
                /\ UNCHANGED messages
           ELSE /\ messages' = Append(messages, Message("assistant", r.value))
                /\ UNCHANGED wcrashed
    /\ UNCHANGED <<env_api_key, api_key, wprompt, wcalls, wrejected>>
    /\ UNCHANGED <<parserVars, cliVars>>

----------------------------------------------------------------------------
(* Specifications *)

\* values of the variables of the parts a specification does not run
ParserOff == content = <<>> /\ parsed = NoValue
CliOff ==
    /\ pc = "off" /\ mode = "none" /\ user_input = <<>> /\ query = <<>>
    /\ pending = 0 /\ accepted = 0 /\ attempts = 0 /\ rendered = 0
    /\ outcome = "none" /\ reply = NoValue /\ result = NoValue
    /\ console = <<>> /\ exitCause = "none"
WebOff ==
    /\ env_api_key = <<>> /\ api_key = <<>> /\ messages = <<>> /\ wpc = "off"
    /\ wprompt = <<>> /\ wcalls = 0 /\ wrejected = 0 /\ wcrashed = FALSE

\* parse_response applied to a reply
Parse ==
    /\ parsed = NoValue
    /\ content \in ParserInputs
    /\ parsed' = ParseResponse(content)
    /\ UNCHANGED <<content, cliVars, webVars>>

ParserInit ==
    /\ content \in ParserInputs
    /\ parsed = NoValue
    /\ CliOff /\ WebOff
ParserNext == Parse
ParserSpec == ParserInit /\ [][ParserNext]_vars

\* the command line: the process after the credential check of lines 20-25
Init ==
    /\ pc = "start" /\ mode = "none" /\ user_input = <<>> /\ query = <<>>
    /\ pending = 0 /\ accepted = 0 /\ attempts = 0 /\ rendered = 0
    /\ outcome = "none" /\ reply = NoValue /\ result = NoValue
    /\ console = <<>> /\ exitCause = "none"
    /\ ParserOff /\ WebOff
Next ==
    \/ \E task \in Tasks : Ask(task)
    \/ Interactive
    \/ \E line \in InputLines : ReadPrompt(line)
    \/ PromptInterrupt
    \/ \E resp \in Responses : TransportReturn(resp.out, resp.body)
Spec == Init /\ [][Next]_vars

\* the chat page: a session after its first script run
WebInit ==
    /\ env_api_key \in WebKeys
    /\ api_key = env_api_key
    /\ messages = <<Greeting>>
    /\ wpc = "idle" /\ wprompt = <<>>
    /\ wcalls = 0 /\ wrejected = 0 /\ wcrashed = FALSE
    /\ ParserOff /\ CliOff
WebNext ==
    \/ \E k \in WebKeys : WebSetSidebarKey(k)
    \/ \E prompt \in WebPrompts : WebSubmit(prompt)
    \/ \E out \in WebOutcomes, body \in WebReplies : WebResponse(out, body)
WebSpec == WebInit /\ [][WebNext]_vars

----------------------------------------------------------------------------
(* Properties of parse_response, checked under ParserSpec *)

HasLabelPrefix(s) == MatchAt(s, LabelFull, 1) \/ MatchAt(s, LabelHalf, 1)
StripLabelPrefix(s) ==
    IF HasLabelPrefix(s) THEN SubSeq(s, Len(LabelFull) + 1, Len(s)) ELSE s

\* text after the first tagged opener
AfterOpener(text) == Split1(text, BashFence)[2]
\* the reply holds a tagged opener, a closing fence after it, and after that
\* (leading whitespace aside) a label
WellFormedTagged(text) ==
    /\ Contains(text, BashFence)
    /\ Contains(AfterOpener(text), Fence)
    /\ HasLabelPrefix(LStrip(Split1(AfterOpener(text), Fence)[2]))
BlockBody(text) == Split1(AfterOpener(text), Fence)[1]
PostLabel(text) == StripLabelPrefix(LStrip(Split1(AfterOpener(text), Fence)[2]))

\* C1: for a reply with a well-formed tagged block followed by a labelled
\* explanation, command is exactly the trimmed block body and explanation is
\* exactly the trimmed text after the label.
C1_TaggedBlockExact ==
    (parsed # NoValue /\ WellFormedTagged(content)) =>
        /\ parsed.code = Strip(BlockBody(content))
        /\ parsed.explanation = Strip(PostLabel(content))

\* C2 as stated: for a reply without any fence, command is empty and
\* explanation is the whole reply, trimmed and otherwise unchanged.
C2_NoFenceFullReply ==
    (parsed # NoValue /\ ~Contains(content, Fence)) =>
        /\ parsed.code = <<>>
        /\ parsed.explanation = Strip(content)

\* C2 as amended: for a reply without any fence, command is empty and
\* explanation is the whole reply with the label strings removed and then
\* trimmed; it is the trimmed reply when the reply holds no label string.
C2_NoFenceCleanedReply ==
    (parsed # NoValue /\ ~Contains(content, Fence)) =>
        /\ parsed.code = <<>>
        /\ parsed.explanation =
              Strip(Replace(Replace(content, LabelFull, <<>>), LabelHalf, <<>>))
        /\ (~Contains(content, LabelFull) /\ ~Contains(content, LabelHalf))
              => parsed.explanation = Strip(content)

\* a parsed reply without fence whose explanation lost a label
C2_Witness ==
    /\ parsed # NoValue
    /\ ~Contains(content, Fence)
    /\ Contains(content, LabelFull)
    /\ parsed.explanation # <<>>
    /\ parsed.explanation # Strip(content)

\* the first tagged opener has no closing fence after it
TaggedUnclosed(text) ==
    Contains(text, BashFence) /\ ~Contains(AfterOpener(text), Fence)
\* the generic strategy finds an opener and a closer
GenericPair(text) ==
    Contains(text, Fence) /\ Contains(Split1(text, Fence)[2], Fence)

\* C3 as stated: with a tagged opener and no closing fence after it, the
\* generic strategy is applied: its command is the result's command when it
\* finds a pair, and only without a pair is the result the unstructured one
\* (empty command, explanation the whole input, cleaned or not).
C3_FallThroughToGeneric ==
    (parsed # NoValue /\ TaggedUnclosed(content)) =>
        IF GenericPair(content)
        THEN SplitLogic(content, Fence).code_block # <<>>
                => parsed.code = SplitLogic(content, Fence).code_block
        ELSE /\ parsed.code = <<>>
             /\ parsed.explanation \in {content, Strip(content), CleanLabel(content)}

\* C3 as amended: with a tagged opener and no closing fence after it, the
\* generic strategy is not applied; the result is always the unstructured
\* one: empty command, explanation the whole input with the label strings
\* removed and trimmed, raw the input.
C3_UnclosedTaggedIsUnstructured ==
    (parsed # NoValue /\ TaggedUnclosed(content)) =>
        /\ parsed.code = <<>>
        /\ parsed.explanation =
              Strip(Replace(Replace(content, LabelFull, <<>>), LabelHalf, <<>>))
        /\ parsed.raw = content

\* an unclosed tagged opener in a reply where the generic strategy would
\* have found a command
C3_Witness ==
    /\ parsed # NoValue
    /\ TaggedUnclosed(content)
    /\ GenericPair(content)
    /\ SplitLogic(content, Fence).code_block # <<>>
    /\ parsed.code = <<>>

\* C4: the label is removed only where it is the prefix of the explanation
\* candidate (taken before or after trimming); everything else of the
\* candidate, later label strings included, is kept apart from the trimming.
C4_LabelPrefixOnly ==
    parsed # NoValue =>
        parsed.explanation \in
            {Strip(StripLabelPrefix(Candidate(content))),
             Strip(StripLabelPrefix(Strip(Candidate(content))))}

----------------------------------------------------------------------------
(* Properties of the command line, checked under Spec *)

\* the panels of lines 190-212 among what was printed
HandleQueryPanels(c) ==
    SelectSeq(c, LAMBDA p : p.title \in {"suggested command", "explanation", "reply"})

\* C5: after a successful transport call raw is the model's reply, unmodified,
\* and it is not empty when the reply is not.
C5_RawIsOriginalReply ==
    outcome = "ok" =>
        /\ result.raw = reply
        /\ reply # <<>> => result.raw # <<>>

\* C6: after a network failure, a non-200 status, a 200 response without
\* choices/content or any other exception of the response handling,
\* get_llm_response has returned an empty command and a non-empty
\* explanation, handle_query has shown it in the fallback panel and returned,
\* and the interactive loop is back at its prompt.
C6_ErrorsContained ==
    outcome \in ErrorOutcomes =>
        /\ result # NoValue
        /\ result.code = <<>>
        /\ result.explanation # <<>>
        /\ HandleQueryPanels(console) = <<FallbackPanel(result.explanation)>>
        /\ rendered = accepted
        /\ exitCause # "crashed"
        /\ mode = "interactive" => (pc = "prompt" /\ exitCause = "none")
        /\ mode = "ask" => (pc = "done" /\ exitCause = "completed")

\* the interactive loop back at its prompt after an exception of the
\* response handling
C6_Witness ==
    /\ outcome = "bad_content"
    /\ mode = "interactive"
    /\ pc = "prompt"
    /\ accepted = 2

\* C7: a request is in flight only for a non-empty query.
C7_NoEmptyDispatch == pc = "in_flight" => query # <<>>

\* C8: in interactive mode every accepted query has had exactly one transport
\* attempt; the loop is at its prompt only with every attempt completed and
\* its result rendered, and never after an exit keyword was entered; it
\* terminates on an exit keyword or an interrupt/EOF only, and then no
\* request is in flight.
C8_OneAttemptPerQuery ==
    mode = "interactive" =>
        /\ attempts = accepted
        /\ pending = (IF pc = "in_flight" THEN 1 ELSE 0)
        /\ pc = "prompt" => rendered = accepted
        /\ pc = "in_flight" => rendered = accepted - 1
        /\ pc \in {"prompt", "in_flight"} => user_input \notin ExitWords
        /\ pc = "done" =>
              /\ pending = 0
              /\ exitCause \in {"keyword", "interrupt"}
              /\ exitCause = "keyword" => Lower(user_input) \in ExitWords

\* the loop ended by an exit keyword after two queries were resolved
C8_Witness ==
    /\ mode = "interactive"
    /\ pc = "done"
    /\ exitCause = "keyword"
    /\ accepted = 2
    /\ rendered = 2

\* C9: handle_query shows the command panel (and after it the explanation
\* panel exactly when explanation is not empty) if and only if command is not
\* empty; for an empty command it shows exactly one fallback panel, with
\* explanation if that is not empty and raw otherwise.
C9_RenderingByCommand ==
    result # NoValue =>
        LET shown == HandleQueryPanels(console)
        IN  /\ (result.code # <<>>) <=> (\E i \in 1..Len(shown) : shown[i].border = "green")
            /\ result.code # <<>> =>
                  /\ shown[1] = CommandPanel(result.code)
                  /\ Len(shown) = (IF result.explanation # <<>> THEN 2 ELSE 1)
                  /\ Len(shown) = 2 => shown[2] = ExplanationPanel(result.explanation)
            /\ result.code = <<>> =>
                  /\ Len(shown) = 1
                  /\ shown[1].border = "red" /\ shown[1].title = "reply"
                  /\ shown[1].body =
                        (IF result.explanation # <<>> THEN result.explanation
                         ELSE IF "raw" \in DOMAIN result THEN result.raw ELSE <<>>)

\* an empty command and an empty explanation: raw is what the panel shows
C9_Witness ==
    /\ result # NoValue
    /\ result.code = <<>>
    /\ result.explanation = <<>>
    /\ GetRaw(result) # <<>>
    /\ HandleQueryPanels(console) = <<FallbackPanel(result.raw)>>

----------------------------------------------------------------------------
(* Properties of the chat page, checked under WebSpec *)

IsPrefix(s, t) == Len(s) <= Len(t) /\ SubSeq(t, 1, Len(s)) = s

C10_State ==
    /\ Len(messages) >= 1
    /\ messages[1] = Greeting
    /\ \A i \in 1..Len(messages) :
          messages[i].role = (IF i % 2 = 1 THEN "assistant" ELSE "user")
    /\ wpc = "idle" =>
          /\ Len(messages) = 1 + 2 * wcalls
          /\ messages[Len(messages)].role = "assistant"
    /\ wpc = "calling" => Len(messages) = 2 * wcalls
    /\ ~wcrashed

C10_Step ==
    /\ IsPrefix(messages, messages')
    /\ (wpc = "idle" /\ api_key = <<>>) => (messages' = messages /\ wcalls' = wcalls)
    /\ wcalls' # wcalls => messages' = Append(messages, Message("user", wprompt'))
    /\ wpc = "calling" =>
          (Len(messages') = Len(messages) + 1 /\ wpc' = "idle" /\ wcalls' = wcalls)

\* C10: the history starts with the greeting, alternates assistant and user,
\* and only grows; a submission without credential leaves it unchanged and
\* makes no transport call, any other appends one user message and, whatever
\* the transport call ends with, one assistant message; between script runs
\* its length is odd and its last message is the assistant's.
C10_HistoryAlternates == []C10_State /\ [][C10_Step]_vars

\* two completed cycles, one of them answered by the text of an exception,
\* and a submission refused for lack of a credential
C10_Witness ==
    /\ wpc = "idle"
    /\ Len(messages) = 5
    /\ wrejected > 0
    /\ \E i \in 1..Len(messages) : messages[i].content = <<"error: ", "str(e)">>

====
